---- MODULE Spec2Model ----
(***************************************************************************)
(* Model of disgustang (src/src/main.rs): a D-Bus monitor that correlates  *)
(* Notify calls, their method returns and NotificationClosed signals into  *)
(* a bounded notification history, caches raw icons on disk with reference *)
(* counts, and prints the history as JSON after every change.              *)
(*                                                                         *)
(* One step of the model is one iteration of the loop in main(): a message *)
(* is taken from the stream and handle_msg runs to completion on it.       *)
(***************************************************************************)
EXTENDS Integers, Sequences, FiniteSets, TLC

\* ------------------------------------------------------------------ bounds
\* Largest --length given on the command line.
MaxLength == 2
\* Notifications alive at once (buffer and history together).
MaxRecords == 2
\* The same two for the runs with a longer history and fewer kinds of message.
LongLength == 3
LongRecords == 3
FifoRecords == 4
\* Call serials seen on the bus are 1..MaxSerial.
MaxSerial == 2
\* Notification ids seen on the bus are 0..MaxId.
MaxId == 2
\* Largest reference count an icon reaches (evicted records keep theirs).
MaxCount == 2

Lengths == 1..MaxLength
Serials == 1..MaxSerial
Ids == 0..MaxId

\* ----------------------------------------------------------- environment
\* An Option<T> is a sequence of at most one element.
None == <<>>
Some(x) == <<x>>

\* --cache-dir
cache_dir == "/cache"

\* Sha1 hex digest of a pixel payload (distinct payloads, distinct digests).
Sha1(bytes) == CASE bytes = "rgb1" -> "5f1d" [] OTHER -> "a0c3"

\* format!("{}/{}.png", cache_dir, hasher.result_str())
CachePath(bytes) == cache_dir \o "/" \o Sha1(bytes) \o ".png"

\* The icon theme on disk: icon name -> file.
ThemeFiles == [n \in {"mail-unread"} |-> "/usr/share/icons/Adwaita/" \o n \o ".png"]

lookup_icon(name) == IF name \in DOMAIN ThemeFiles THEN ThemeFiles[name] ELSE ""

\* Argument lists of the Notify calls observed: app_name, app_icon, summary,
\* body and the two hints handle_msg reads (each present or not).
Notifys ==
  { [app_name |-> "mail", app_icon |-> "mail-unread", summary |-> "New mail",
     body |-> "2 unread", image_data |-> None, urgency |-> Some(2)],
    [app_name |-> "chat", app_icon |-> "", summary |-> "Ping",
     body |-> "", image_data |-> Some("rgb1"), urgency |-> None] }

\* One more, whose icon name the theme does not have and which carries no
\* image: its icon is the empty string.
Unthemed ==
  [app_name |-> "term", app_icon |-> "no-such-icon", summary |-> "Done",
   body |-> "", image_data |-> None, urgency |-> Some(0)]

\* ----------------------------------------------------------------- state
VARIABLES
  capacity,      \* history.capacity(), fixed by Vec::with_capacity(args.length)
  buffer,        \* Vec<Notification>: created, not yet closed
  history,       \* Vec<Notification>: closed, oldest first
  cached_icons,  \* HashMap<String, i64>: cache path -> reference count
  files,         \* files present in cache_dir
  msg,           \* the message handle_msg was last called on
  stdout,        \* lines printed by that call
  stderr,        \* diagnostics printed by that call
  pc,            \* "running", or "panicked" once an unwrap() has failed
  rm_failed,     \* some remove_file has returned an error since startup
  dropped        \* the records that call took out of buffer and out of
                 \* history without putting them anywhere else

vars == <<capacity, buffer, history, cached_icons, files, msg, stdout, stderr,
          pc, rm_failed, dropped>>

\* --------------------------------------------------------------- helpers
\* Vec::remove(i) taking nothing out.
RemoveNothing(seq, i) == seq

\* Vec::remove(i)
Remove(seq, i) == [j \in 1..(Len(seq) - 1) |-> IF j < i THEN seq[j] ELSE seq[j + 1]]

\* Vec::reverse
Reverse(seq) == [j \in 1..Len(seq) |-> seq[Len(seq) + 1 - j]]

\* HashMap::remove
MapRemove(map, k) == [p \in DOMAIN map \ {k} |-> map[p]]

\* *map.entry(k).or_insert(0) += 1
MapIncrement(map, k) ==
  [p \in DOMAIN map \cup {k} |-> IF p = k THEN (IF k \in DOMAIN map THEN map[k] ELSE 0) + 1
                                          ELSE map[p]]

\* print_json without the reverse: oldest first.
print_json_oldest_first(hist) == <<hist>>

\* print_json printing nothing.
print_json_silent(hist) == <<>>

\* print_json: the history, newest first, as one line.
print_json(hist) == <<Reverse(hist)>>

\* ------------------------------------------------------------- messages
\* A message: its type, interface and member, its serial and reply serial
\* (each an Option), and its body.  The body of a Notify call is its argument
\* list, the body of any other message is [signature, arg0]: the D-Bus
\* signature of the body and, when that starts with "u", the first argument.
NoMsg ==
  [type |-> "none", interface |-> "", member |-> "", serial |-> None,
   reply_serial |-> None, body |-> [signature |-> "", arg0 |-> 0]]

U32(n) == [signature |-> "u", arg0 |-> n]
Str == [signature |-> "s", arg0 |-> 0]
Empty == [signature |-> "", arg0 |-> 0]

NotifyMsg(serial, args) ==
  [type |-> "method_call", interface |-> "org.freedesktop.Notifications",
   member |-> "Notify", serial |-> serial, reply_serial |-> None, body |-> args]

RemoveMsg(id) ==
  [type |-> "method_call", interface |-> "org.dunstproject.cmd0",
   member |-> "NotificationRemoveFromHistory", serial |-> Some(1),
   reply_serial |-> None, body |-> U32(id)]

ClearMsg ==
  [type |-> "method_call", interface |-> "org.dunstproject.cmd0",
   member |-> "NotificationClearHistory", serial |-> Some(1),
   reply_serial |-> None, body |-> Empty]

ReturnMsg(reply_serial, value) ==
  [type |-> "method_return", interface |-> "", member |-> "", serial |-> Some(1),
   reply_serial |-> reply_serial, body |-> value]

ClosedMsg(id) ==
  [type |-> "signal", interface |-> "org.freedesktop.Notifications",
   member |-> "NotificationClosed", serial |-> Some(1), reply_serial |-> None,
   body |-> U32(id)]

\* Messages that match none of the branches of handle_msg.
OtherMsgs ==
  { [type |-> "error", interface |-> "", member |-> "", serial |-> Some(1),
     reply_serial |-> Some(1), body |-> Str],
    [type |-> "signal", interface |-> "org.freedesktop.DBus",
     member |-> "NameAcquired", serial |-> Some(1), reply_serial |-> None,
     body |-> Str],
    [type |-> "method_call", interface |-> "org.freedesktop.DBus.Properties",
     member |-> "Get", serial |-> Some(1), reply_serial |-> None, body |-> Str],
    [type |-> "method_call", interface |-> "org.dunstproject.cmd0",
     member |-> "NotificationCloseLast", serial |-> Some(1),
     reply_serial |-> None, body |-> Empty] }

\* A call on the Notifications interface that is not Notify.
CloseNotificationMsg(id) ==
  [type |-> "method_call", interface |-> "org.freedesktop.Notifications",
   member |-> "CloseNotification", serial |-> Some(1), reply_serial |-> None,
   body |-> U32(id)]

\* ------------------------------------------------------- handle_msg parts
\* NewNotification with the summary and the body taken from each other's field.
NewNotificationSwapped(serial, args, icon) ==
  [serial |-> serial,
   appname |-> args.app_name,
   summary |-> args.body,
   body |-> args.summary,
   icon |-> icon,
   urgency |-> IF args.urgency = None THEN 1 ELSE args.urgency[1],
   id |-> 0]

\* The Notification pushed by a Notify call (lines 76-141).
NewNotification(serial, args, icon) ==
  [serial |-> serial,
   appname |-> args.app_name,
   summary |-> args.summary,
   body |-> args.body,
   icon |-> icon,
   urgency |-> IF args.urgency = None THEN 1 ELSE args.urgency[1],
   id |-> 0]

\* FindBySerial settling for the first record when none has the serial.
FindBySerialOrFirst(seq, serial) ==
  IF \E i \in 1..Len(seq) : seq[i].serial = serial
    THEN CHOOSE i \in 1..Len(seq) :
           seq[i].serial = serial /\ \A j \in 1..(i - 1) : seq[j].serial # serial
    ELSE IF Len(seq) > 0 THEN 1 ELSE 0

\* buffer.iter_mut().find(|x| x.serial == reply_serial): the index of the
\* first record with the serial, 0 for None.
FindBySerial(seq, serial) ==
  IF \E i \in 1..Len(seq) : seq[i].serial = serial
    THEN CHOOSE i \in 1..Len(seq) :
           seq[i].serial = serial /\ \A j \in 1..(i - 1) : seq[j].serial # serial
    ELSE 0

\* iter().find(|x| x.id == id) and iter().position(|x| x.id == id): the index
\* of the first record with the id, 0 for None.
FindById(seq, id) ==
  IF \E i \in 1..Len(seq) : seq[i].id = id
    THEN CHOOSE i \in 1..Len(seq) :
           seq[i].id = id /\ \A j \in 1..(i - 1) : seq[j].id # id
    ELSE 0

\* Evict taking out the newest record instead of the oldest.
EvictNewest(hist, cap) ==
  IF Len(hist) = cap THEN SubSeq(hist, 1, Len(hist) - 1) ELSE hist

\* Evict with the eviction left out.
EvictNothing(hist, cap) == hist

\* if history.len() == history.capacity() { history.remove(0); }
Evict(hist, cap) == IF Len(hist) = cap THEN Remove(hist, 1) ELSE hist

\* The record history.remove(0) returns when that branch is taken.
Evicted(hist, cap) == IF Len(hist) = cap THEN <<hist[1]>> ELSE <<>>

\* The reference-count update emptying the index.
ReleaseAll(map, path) == [p \in {} |-> 0]

\* The reference-count update of NotificationRemoveFromHistory (lines 152-164):
\* the count is decremented and the entry dropped at zero, then line 164
\* removes the entry whatever the count.
Release(map, path) ==
  LET counted == IF path \notin DOMAIN map THEN map
                 ELSE IF map[path] - 1 <= 0 THEN MapRemove(map, path)
                 ELSE [map EXCEPT ![path] = map[path] - 1]
  IN  MapRemove(counted, path)

\* remove_file is called by that update when the count reaches zero.
ReleaseDeletes(map, path) == path \in DOMAIN map /\ map[path] - 1 <= 0

\* No record leaves buffer or history for good.
NoneDropped == [buffer |-> <<>>, history |-> <<>>]

\* A call of handle_msg that returns without touching the engine's state.
NoChange ==
  /\ UNCHANGED <<capacity, buffer, history, cached_icons, files, pc, rm_failed>>
  /\ dropped' = NoneDropped

\* handle_msg returns Ok(()) having done nothing.
Ignore == NoChange /\ stdout' = <<>> /\ stderr' = <<>>

\* handle_msg returns Err(report); main prints it and takes the next message.
Fail(report) == NoChange /\ stdout' = <<>> /\ stderr' = <<report>>

\* An unwrap() or an index fails: the panic unwinds out of main and the
\* process ends.  Its vectors and its index are gone, the files stay.
Panic(report) ==
  /\ pc' = "panicked"
  /\ buffer' = <<>>
  /\ history' = <<>>
  /\ cached_icons' = [p \in {} |-> 0]
  /\ stdout' = <<>>
  /\ stderr' = <<report>>
  /\ dropped' = NoneDropped
  /\ UNCHANGED <<capacity, files, rm_failed>>

\* The orders in which a HashMap may iterate over the keys in S.
Orders(S) ==
  {sq \in [1..Cardinality(S) -> S] : \A i, j \in 1..Cardinality(S) : sq[i] = sq[j] => i = j}

\* --------------------------------------------------------------- actions
\* Lines 72-141: a Notify call.  `saved` is whether savev manages to encode
\* and write the icon, should it be called.
Notify(serial, args, saved) ==
  /\ pc = "running"
  /\ msg' = NotifyMsg(serial, args)
  /\ IF serial = None
       THEN Fail("Failed getting serial number from message")
     ELSE IF args.image_data = None
       THEN /\ buffer' = Append(buffer, NewNotification(serial[1], args,
                                                        lookup_icon(args.app_icon)))
            /\ stdout' = <<>>
            /\ stderr' = <<>>
            /\ dropped' = NoneDropped
            /\ UNCHANGED <<capacity, history, cached_icons, files, pc, rm_failed>>
     ELSE LET path == CachePath(args.image_data[1]) IN
          IF path \notin files /\ ~saved
            THEN Fail("Failed to save image")
            ELSE /\ files' = files \cup {path}
                 /\ cached_icons' = MapIncrement(cached_icons, path)
                 /\ buffer' = Append(buffer, NewNotification(serial[1], args, path))
                 /\ stdout' = <<>>
                 /\ stderr' = <<>>
                 /\ dropped' = NoneDropped
                 /\ UNCHANGED <<capacity, history, pc, rm_failed>>

\* Lines 144-168: NotificationRemoveFromHistory.  `removed` is whether
\* remove_file manages to delete the icon, should it be called.
NotificationRemoveFromHistory(id, removed) ==
  /\ pc = "running"
  /\ msg' = RemoveMsg(id)
  /\ LET pos == FindById(history, id) IN
     IF pos = 0
       THEN Panic("called Option::unwrap() on a None value")
       ELSE LET icon_path == history[pos].icon
                deletes == ReleaseDeletes(cached_icons, icon_path)
                ok == removed /\ icon_path \in files
            IN  /\ history' = Remove(history, pos)
                /\ cached_icons' = Release(cached_icons, icon_path)
                /\ files' = IF deletes /\ ok THEN files \ {icon_path} ELSE files
                /\ stderr' = IF deletes /\ ~ok
                               THEN <<"Failed removing file " \o icon_path>>
                               ELSE <<>>
                /\ rm_failed' = (rm_failed \/ (deletes /\ ~ok))
                /\ stdout' = print_json(history')
                /\ dropped' = [buffer |-> <<>>, history |-> <<history[pos]>>]
                /\ UNCHANGED <<capacity, buffer, pc>>

\* A NotificationClearHistory that leaves the pending records alone.
NotificationClearHistoryOnly(kept) ==
  /\ pc = "running"
  /\ msg' = ClearMsg
  /\ buffer' = buffer
  /\ history' = <<>>
  /\ LET failed == {p \in DOMAIN cached_icons : p \in kept \/ p \notin files} IN
       /\ files' = files \ (DOMAIN cached_icons \ kept)
       /\ \E order \in Orders(failed) :
            stderr' = [i \in 1..Cardinality(failed) |-> "Failed removing file " \o order[i]]
       /\ rm_failed' = (rm_failed \/ failed # {})
  /\ cached_icons' = [p \in {} |-> 0]
  /\ stdout' = << <<>> >>
  /\ dropped' = [buffer |-> <<>>, history |-> history]
  /\ UNCHANGED <<capacity, pc>>

\* Lines 169-181: NotificationClearHistory.  `kept` are the indexed files
\* remove_file fails to delete.
NotificationClearHistory(kept) ==
  /\ pc = "running"
  /\ msg' = ClearMsg
  /\ buffer' = <<>>
  /\ history' = <<>>
  /\ LET failed == {p \in DOMAIN cached_icons : p \in kept \/ p \notin files} IN
       /\ files' = files \ (DOMAIN cached_icons \ kept)
       /\ \E order \in Orders(failed) :
            stderr' = [i \in 1..Cardinality(failed) |-> "Failed removing file " \o order[i]]
       /\ rm_failed' = (rm_failed \/ failed # {})
  /\ cached_icons' = [p \in {} |-> 0]
  /\ stdout' = << <<>> >>
  /\ dropped' = [buffer |-> buffer, history |-> history]
  /\ UNCHANGED <<capacity, pc>>

\* Lines 186-201: a method return.
MethodReturn(reply_serial, value) ==
  /\ pc = "running"
  /\ msg' = ReturnMsg(reply_serial, value)
  /\ IF reply_serial = None
       THEN Ignore
       ELSE LET pos == FindBySerial(buffer, reply_serial[1]) IN
            IF pos = 0
              THEN Ignore
            ELSE IF value.signature # "u"
              THEN Panic("called Result::unwrap() on an Err value")
            ELSE /\ buffer' = [buffer EXCEPT ![pos].id = value.arg0]
                 /\ stdout' = <<>>
                 /\ stderr' = <<>>
                 /\ dropped' = NoneDropped
                 /\ UNCHANGED <<capacity, history, cached_icons, files, pc, rm_failed>>

\* A NotificationClosed that gives up the icon of the record it evicts.
NotificationClosedReleasing(id) ==
  /\ pc = "running"
  /\ msg' = ClosedMsg(id)
  /\ LET pos == FindById(buffer, id) IN
     IF pos = 0
       THEN Ignore
       ELSE LET s == buffer[pos]
                gone == Evicted(history, capacity)
            IN  /\ history' = Append(Evict(history, capacity), s)
                /\ buffer' = Remove(buffer, FindById(buffer, s.id))
                /\ cached_icons' = IF gone = <<>> THEN cached_icons
                                    ELSE Release(cached_icons, gone[1].icon)
                /\ files' = IF gone # <<>> /\ ReleaseDeletes(cached_icons, gone[1].icon)
                               THEN files \ {gone[1].icon} ELSE files
                /\ stdout' = print_json(history')
                /\ stderr' = <<>>
                /\ dropped' = [buffer |-> <<>>, history |-> gone]
                /\ UNCHANGED <<capacity, pc, rm_failed>>

\* Lines 202-226: a NotificationClosed signal.
NotificationClosed(id) ==
  /\ pc = "running"
  /\ msg' = ClosedMsg(id)
  /\ LET pos == FindById(buffer, id) IN
     IF pos = 0
       THEN Ignore
       ELSE LET s == buffer[pos] IN
            /\ history' = Append(Evict(history, capacity), s)
            /\ buffer' = Remove(buffer, FindById(buffer, s.id))
            /\ stdout' = print_json(history')
            /\ stderr' = <<>>
            /\ dropped' = [buffer |-> <<>>, history |-> Evicted(history, capacity)]
            /\ UNCHANGED <<capacity, cached_icons, files, pc, rm_failed>>

\* Lines 68-72, 142-144, 169, 182-184, 203-204, 224-227: a message no branch takes.
Other(m) ==
  /\ pc = "running"
  /\ msg' = m
  /\ Ignore

\* Lines 72-75: a call on org.freedesktop.Notifications other than Notify
\* is read as a Notify; its argument list has no fields[6].
NotificationsCall(id) ==
  /\ pc = "running"
  /\ msg' = CloseNotificationMsg(id)
  /\ Panic("index out of bounds: the len is 1 but the index is 6")

\* ---------------------------------------------------------- specification
\* Lines 245-248, 262-268: empty vectors, an empty index, a wiped cache
\* directory.  --length is at least 1, and Vec::with_capacity reserves exactly
\* that many records.
Init ==
  /\ capacity \in Lengths
  /\ buffer = <<>>
  /\ history = <<>>
  /\ cached_icons = [p \in {} |-> 0]
  /\ files = {}
  /\ msg = NoMsg
  /\ stdout = <<>>
  /\ stderr = <<>>
  /\ pc = "running"
  /\ rm_failed = FALSE
  /\ dropped = NoneDropped


\* The model stops taking Notify calls at `records` live notifications and
\* at a reference count of MaxCount.
Room(records) ==
  /\ Len(buffer) + Len(history) < records
  /\ \A p \in DOMAIN cached_icons : cached_icons[p] < MaxCount

Next ==
  \/ /\ Room(MaxRecords)
     /\ \E serial \in {None} \cup {Some(n) : n \in Serials},
           args \in Notifys \cup {Unthemed},
           saved \in BOOLEAN : Notify(serial, args, saved)
  \/ \E id \in Ids, removed \in BOOLEAN : NotificationRemoveFromHistory(id, removed)
  \/ \E kept \in SUBSET DOMAIN cached_icons : NotificationClearHistory(kept)
  \/ \E reply_serial \in {None} \cup {Some(n) : n \in Serials},
        value \in {U32(n) : n \in Ids} \cup {Str} : MethodReturn(reply_serial, value)
  \/ \E id \in Ids : NotificationClosed(id)
  \/ \E m \in OtherMsgs : Other(m)
  \/ \E id \in Ids : NotificationsCall(id)

Spec == Init /\ [][Next]_vars

\* A history of LongLength, fed with well-formed messages on a file system
\* that does not fail.
InitLong ==
  /\ capacity = LongLength
  /\ buffer = <<>>
  /\ history = <<>>
  /\ cached_icons = [p \in {} |-> 0]
  /\ files = {}
  /\ msg = NoMsg
  /\ stdout = <<>>
  /\ stderr = <<>>
  /\ pc = "running"
  /\ rm_failed = FALSE
  /\ dropped = NoneDropped

NextLong ==
  \/ /\ Room(LongRecords)
     /\ \E n \in Serials, args \in Notifys : Notify(Some(n), args, TRUE)
  \/ \E id \in Ids : NotificationRemoveFromHistory(id, TRUE)
  \/ NotificationClearHistory({})
  \/ \E n \in Serials, id \in Ids : MethodReturn(Some(n), U32(id))
  \/ \E id \in Ids : NotificationClosed(id)

SpecLong == InitLong /\ [][NextLong]_vars

\* The same history and messages with up to FifoRecords live notifications,
\* so that a close finds the history full; the notifications carry no image.
NextFifo ==
  \/ /\ Room(FifoRecords)
     /\ \E n \in Serials, args \in {a \in Notifys : a.image_data = None} :
          Notify(Some(n), args, TRUE)
  \/ \E id \in Ids : NotificationRemoveFromHistory(id, TRUE)
  \/ NotificationClearHistory({})
  \/ \E n \in Serials, id \in Ids : MethodReturn(Some(n), U32(id))
  \/ \E id \in Ids : NotificationClosed(id)

SpecFifo == InitLong /\ [][NextFifo]_vars

\* ---------------------------------------------------------- the messages
IsNotify(m) ==
  /\ m.type = "method_call"
  /\ m.interface = "org.freedesktop.Notifications"
  /\ m.member = "Notify"

IsRemove(m) ==
  /\ m.type = "method_call"
  /\ m.interface = "org.dunstproject.cmd0"
  /\ m.member = "NotificationRemoveFromHistory"

IsClear(m) ==
  /\ m.type = "method_call"
  /\ m.interface = "org.dunstproject.cmd0"
  /\ m.member = "NotificationClearHistory"

IsReturn(m) == m.type = "method_return"

IsClosed(m) == m.type = "signal" /\ m.member = "NotificationClosed"

\* The positions of seq holding a record with this id, with this serial.
WithId(seq, id) == {i \in 1..Len(seq) : seq[i].id = id}
WithSerial(seq, serial) == {i \in 1..Len(seq) : seq[i].serial = serial}

\* The cache paths among the icons of seq.
IsCachePath(icon) == icon # "" /\ icon \notin {ThemeFiles[n] : n \in DOMAIN ThemeFiles}

\* --------------------------------------------------------------- claims
\* C1: whatever the capacity N >= 1 and the messages handled, History never
\* holds more than N records, and no printed snapshot lists more than N.
C1_HistoryBound ==
  /\ Len(history) <= capacity
  /\ \A i \in 1..Len(stdout) : Len(stdout[i]) <= capacity

\* A close has just filled History while a cached icon is referenced by no
\* live record: the record that carried it was evicted to make room.
C1_Witness ==
  /\ IsClosed(msg)
  /\ stdout # <<>>
  /\ Len(history) = capacity
  /\ buffer = <<>>
  /\ \E p \in DOMAIN cached_icons : \A i \in 1..Len(history) : history[i].icon # p

\* What a Notify call says of its notification: the texts, the urgency hint
\* (normal when absent) and the icon its image or its icon name resolves to.
Created(m) ==
  [serial |-> m.serial[1],
   appname |-> m.body.app_name,
   summary |-> m.body.summary,
   body |-> m.body.body,
   icon |-> IF m.body.image_data # None THEN CachePath(m.body.image_data[1])
                                        ELSE lookup_icon(m.body.app_icon),
   urgency |-> IF m.body.urgency # None THEN m.body.urgency[1] ELSE 1,
   id |-> 0]

\* C2, the create: a Notify that is taken adds its notification, without an
\* id, to the pending ones and leaves the others as they are.
C2_Create ==
  (IsNotify(msg') /\ stderr' = <<>>) =>
     /\ buffer' = Append(buffer, Created(msg'))
     /\ history' = history

\* C2, the return: the one pending record with the reply's serial takes the
\* returned id and keeps its other fields; records with another serial and
\* History are left alone.
C2_Return ==
  (IsReturn(msg') /\ msg'.reply_serial # None /\ msg'.body.signature = "u") =>
     /\ Len(buffer') = Len(buffer)
     /\ history' = history
     /\ \A p \in 1..Len(buffer) :
          /\ WithSerial(buffer, msg'.reply_serial[1]) = {p}
               => buffer'[p] = [buffer[p] EXCEPT !.id = msg'.body.arg0]
          /\ buffer[p].serial # msg'.reply_serial[1] => buffer'[p] = buffer[p]

\* C2, the close: the one pending record with the closed id becomes the one
\* History record with that id, all fields kept, and is pending no longer;
\* pending records with another id stay pending.
C2_Closed ==
  IsClosed(msg') =>
     \A p \in 1..Len(buffer) :
       /\ (WithId(buffer, msg'.body.arg0) = {p} /\ WithId(history, msg'.body.arg0) = {})
            => /\ WithId(history', msg'.body.arg0) = {Len(history')}
               /\ history'[Len(history')] = buffer[p]
               /\ WithId(buffer', msg'.body.arg0) = {}
       /\ buffer[p].id # msg'.body.arg0
            => \E q \in 1..Len(buffer') : buffer'[q] = buffer[p]

Idless(seq) == SelectSeq(seq, LAMBDA r : r.id = 0)

\* C3: a pending record whose id is still 0 is never closed: whatever id a
\* closed signal carries, the records without an id stay pending.
C3_IdlessNeverClosed == [][IsClosed(msg') => Idless(buffer') = Idless(buffer)]_vars

\* C4: of two History records sharing one cached icon (count 2), removing the
\* first leaves the entry with count 1 and the file; removing the last
\* reference (count 1) drops the entry and, the deletion succeeding, the file.
C4_ReleaseCounts ==
  [][ (IsRemove(msg') /\ pc' = "running") =>
        \A i \in WithId(history, msg'.body.arg0) :
          (i = FindById(history, msg'.body.arg0) /\ history[i].icon \in DOMAIN cached_icons) =>
             LET icon == history[i].icon IN
             IF cached_icons[icon] >= 2
               THEN /\ icon \in DOMAIN cached_icons'
                    /\ cached_icons'[icon] = cached_icons[icon] - 1
                    /\ files' = files
               ELSE /\ icon \notin DOMAIN cached_icons'
                    /\ stderr' = <<>> => icon \notin files' ]_vars

\* C5: every index entry counts at least one reference; while the engine
\* runs an entry leaves the index only when its count was 1, or on clear-all;
\* and a removal that reports no failed deletion leaves no cache file without
\* an index entry that had one before.
C5_CountedEntries ==
  /\ [](\A p \in DOMAIN cached_icons : cached_icons[p] >= 1)
  /\ [][ pc' = "running" =>
           /\ \A p \in DOMAIN cached_icons \ DOMAIN cached_icons' :
                cached_icons[p] = 1 \/ IsClear(msg')
           /\ (IsRemove(msg') /\ stderr' = <<>>) =>
                \A p \in DOMAIN cached_icons \ DOMAIN cached_icons' : p \notin files' ]_vars

\* C6: once clear-history has been handled, no deletion having failed since
\* startup, History, the pending set and the index are empty and the cache
\* directory holds no file.
C6_ClearIsTotal ==
  (IsClear(msg) /\ ~rm_failed) =>
     /\ history = <<>>
     /\ buffer = <<>>
     /\ DOMAIN cached_icons = {}
     /\ files = {}

\* A return that answers no pending call, a closed signal for no pending id.
UnmatchedReturn(m) ==
  /\ IsReturn(m)
  /\ m.reply_serial # None => WithSerial(buffer, m.reply_serial[1]) = {}

UnmatchedClosed(m) ==
  /\ IsClosed(m)
  /\ WithId(buffer, m.body.arg0) = {}

\* C7: a return whose reply serial no pending record has, and a closed signal
\* whose id no pending record has, change neither History, nor the pending
\* set, nor the icon index, nor the cache files, and print no snapshot.
C7_UnmatchedNoOp ==
  [][ (UnmatchedReturn(msg') \/ UnmatchedClosed(msg')) =>
        /\ UNCHANGED <<history, buffer, cached_icons, files, pc>>
        /\ stdout' = <<>> ]_vars

\* A return to a serial no pending record has was handled with records
\* pending and in History, and left them there.
C7_Witness ==
  /\ UnmatchedReturn(msg)
  /\ msg.reply_serial # None
  /\ msg.body.signature = "u"
  /\ buffer # <<>>
  /\ history # <<>>
  /\ stdout = <<>>
  /\ pc = "running"

\* C8: a remove-from-history for an id History does not hold is reported and
\* dropped: nothing changes, nothing is printed, and the engine goes on with
\* the next message.
C8_RemoveMissing ==
  [][ (IsRemove(msg') /\ WithId(history, msg'.body.arg0) = {}) =>
        /\ UNCHANGED <<history, buffer, cached_icons, files>>
        /\ stdout' = <<>>
        /\ stderr' # <<>>
        /\ pc' = "running" ]_vars

\* C9: a create whose raw icon cannot be saved loses the icon only: its
\* notification is pending with an empty icon and the index is unchanged.
C9_IconErrorKeepsRecord ==
  [][ (IsNotify(msg') /\ msg'.serial # None /\ msg'.body.image_data # None
         /\ stderr' # <<>>) =>
        /\ buffer' = Append(buffer, [Created(msg') EXCEPT !.icon = ""])
        /\ cached_icons' = cached_icons ]_vars

\* seq, last element first.
NewestFirst(seq) == [i \in 1..Len(seq) |-> seq[Len(seq) - i + 1]]

\* C10: every snapshot printed is History as it then is, newest record
\* first; the snapshot of a close starts with the record just closed, which
\* is pending no longer, followed by the earlier snapshot's records that are
\* still in History.
C10_NewestFirst ==
  /\ [](\A i \in 1..Len(stdout) : stdout[i] = NewestFirst(history))
  /\ [][ (IsClosed(msg') /\ stdout' # <<>>) =>
           LET p == CHOOSE q \in WithId(buffer, msg'.body.arg0) :
                      \A r \in WithId(buffer, msg'.body.arg0) : q <= r
               kept == IF Len(history) = capacity THEN Tail(history) ELSE history
           IN  /\ stdout' = << <<buffer[p]>> \o NewestFirst(kept) >>
               /\ buffer' = SubSeq(buffer, 1, p - 1) \o SubSeq(buffer, p + 1, Len(buffer)) ]_vars

\* Three different notifications were closed one after the other into a
\* History of capacity 3 and the snapshot lists them last closed first.
C10_Witness ==
  /\ capacity >= 3
  /\ IsClosed(msg)
  /\ Len(history) = 3
  /\ history[1] # history[2] /\ history[2] # history[3] /\ history[1] # history[3]
  /\ stdout = << <<history[3], history[2], history[1]>> >>

\* A closed signal for a pending id, a remove-from-history for an id History
\* holds.
MatchedClosed(m) == IsClosed(m) /\ WithId(buffer, m.body.arg0) # {}
MatchedRemove(m) == IsRemove(m) /\ WithId(history, m.body.arg0) # {}

\* C11: a matched close, a matched remove-from-history and a clear-history
\* each print exactly one snapshot, which shows History as the transition
\* leaves it; a create and a return print none and leave History as it is;
\* and History never changes without one snapshot being printed.
C11_OneSnapshot ==
  [][ /\ (MatchedClosed(msg') \/ MatchedRemove(msg') \/ IsClear(msg')) =>
           /\ Len(stdout') = 1
           /\ stdout'[1] = NewestFirst(history')
      /\ (IsNotify(msg') \/ IsReturn(msg')) =>
           /\ stdout' = <<>>
           /\ pc' = "running" => history' = history
      /\ (history' # history /\ pc' = "running") => Len(stdout') = 1 ]_vars

\* A remove-from-history took one record out of a History that held more and
\* printed one snapshot, of the records left.
C11_Witness ==
  /\ IsRemove(msg)
  /\ pc = "running"
  /\ dropped.history # <<>>
  /\ history # <<>>
  /\ stdout = <<NewestFirst(history)>>

\* C12: a close that finds History full takes out its first record, keeps
\* the others in their order and puts the closed record last; a close that
\* finds room only puts the closed record last; a remove-from-history takes
\* one record out and keeps the others in their order; no other message
\* reorders History.  History is therefore always in order of arrival and
\* the record evicted is the one that arrived earliest, also after removals
\* from the middle.
C12_FifoEviction ==
  [][ pc' = "running" =>
        /\ MatchedClosed(msg') =>
             LET s == buffer[FindById(buffer, msg'.body.arg0)] IN
             /\ Len(history) = capacity => history' = Append(Tail(history), s)
             /\ Len(history) < capacity => history' = Append(history, s)
        /\ MatchedRemove(msg') =>
             \E pos \in 1..Len(history) :
               /\ history[pos].id = msg'.body.arg0
               /\ history' = SubSeq(history, 1, pos - 1)
                               \o SubSeq(history, pos + 1, Len(history))
        /\ ~(IsClosed(msg') \/ IsRemove(msg') \/ IsClear(msg')) => history' = history ]_vars

\* A close found a History of three different records full, took out a
\* fourth, different from them, and left the closed record last.
C12_Witness ==
  /\ IsClosed(msg)
  /\ capacity = 3
  /\ Len(history) = 3
  /\ Len(dropped.history) = 1
  /\ \A i, j \in 1..3 : i # j => history[i] # history[j]
  /\ \A i \in 1..3 : history[i] # dropped.history[1]
  /\ history[3].id = msg.body.arg0

\* C13: the id a pending record has been given is not changed by a later
\* return, whatever reply serial and value that return carries.
C13_IdSetOnce ==
  [][ (IsReturn(msg') /\ pc' = "running") =>
        \A p \in 1..Len(buffer) :
          buffer[p].id # 0 => (p <= Len(buffer') /\ buffer'[p].id = buffer[p].id) ]_vars

\* C14: no id other than 0 is held by two of the records pending and in
\* History.
C14_UniqueIds ==
  \A id \in Ids \ {0} :
    Cardinality(WithId(buffer, id)) + Cardinality(WithId(history, id)) <= 1

\* seq with the element at position p taken out.
Without(seq, p) == SubSeq(seq, 1, p - 1) \o SubSeq(seq, p + 1, Len(seq))

\* C15: a matched close puts one pending record last in History and takes
\* that very record, and no other, out of the pending ones in the same step;
\* no other message adds a record to History; and the pending records only
\* ever grow by the new, id-less record of a create, never by a record of
\* History.
C15_MovesOnce ==
  [][ pc' = "running" =>
        /\ MatchedClosed(msg') =>
             \E p \in WithId(buffer, msg'.body.arg0) :
               /\ Len(history') <= Len(history) + 1
               /\ history'[Len(history')] = buffer[p]
               /\ buffer' = Without(buffer, p)
        /\ ~MatchedClosed(msg') =>
             /\ Len(history') <= Len(history)
             /\ \A i \in 1..Len(history') : \E j \in 1..Len(history) : history'[i] = history[j]
        /\ IsNotify(msg') =>
             \/ buffer' = buffer
             \/ buffer' = Append(buffer, Created(msg'))
        /\ ~IsNotify(msg') => Len(buffer') <= Len(buffer) ]_vars

\* A close moved a record behind two others in History; it is among the
\* pending ones no longer, and another record is still pending.
C15_Witness ==
  /\ IsClosed(msg)
  /\ pc = "running"
  /\ stdout # <<>>
  /\ Len(history) = 3
  /\ history[3].id = msg.body.arg0
  /\ buffer # <<>>
  /\ \A q \in 1..Len(buffer) : buffer[q] # history[3]

\* C16: a close changes neither the icon index, keys and counts, nor the
\* cache files, whether it evicts a record or not: the icon of an evicted
\* record is not released.
C16_EvictionKeepsIcon ==
  [][ IsClosed(msg') => UNCHANGED <<cached_icons, files>> ]_vars

\* A close has evicted a record whose icon is a counted cache file; the
\* entry and the file are still there.
C16_Witness ==
  /\ IsClosed(msg)
  /\ Len(dropped.history) = 1
  /\ dropped.history[1].icon \in DOMAIN cached_icons
  /\ dropped.history[1].icon \in files
  /\ cached_icons[dropped.history[1].icon] >= 1

\* The five messages the engine handles: create, return, close,
\* remove-from-history and clear-history.
Handled(m) == IsNotify(m) \/ IsReturn(m) \/ IsClosed(m) \/ IsRemove(m) \/ IsClear(m)

\* C17: a message that is none of the five handled ones leaves History, the
\* pending records, the icon index and the cache files as they are, prints
\* nothing, and the engine keeps running.
C17_OthersIgnored ==
  [][ ~Handled(msg') =>
        /\ UNCHANGED <<history, buffer, cached_icons, files, pc>>
        /\ stdout' = <<>> ]_vars

\* C18: the icon of every record pending or in History that is a cache path
\* names a file present in the cache directory.
C18_NoDanglingIcon ==
  pc = "running" =>
    /\ \A i \in 1..Len(buffer) : IsCachePath(buffer[i].icon) => buffer[i].icon \in files
    /\ \A i \in 1..Len(history) : IsCachePath(history[i].icon) => history[i].icon \in files

\* C19: a remove-from-history of a record whose icon is a themed path or
\* empty, no key of the index, deletes no file and leaves the index and the
\* pending records as they are; History loses that record and one snapshot
\* is printed.
C19_UncachedRemoval ==
  [][ MatchedRemove(msg') =>
        LET pos == CHOOSE i \in WithId(history, msg'.body.arg0) :
                     \A j \in WithId(history, msg'.body.arg0) : i <= j
        IN  (~IsCachePath(history[pos].icon) /\ history[pos].icon \notin DOMAIN cached_icons) =>
               /\ UNCHANGED <<files, cached_icons, buffer, pc>>
               /\ history' = Without(history, pos)
               /\ stdout' = <<NewestFirst(history')>>
               /\ stderr' = <<>> ]_vars

\* A record with a themed icon has just been removed from History while the
\* index counts a cached icon, whose file is on disk.
C19_Witness ==
  /\ IsRemove(msg)
  /\ pc = "running"
  /\ Len(dropped.history) = 1
  /\ dropped.history[1].icon # ""
  /\ ~IsCachePath(dropped.history[1].icon)
  /\ \E p \in DOMAIN cached_icons : p \in files
  /\ Len(stdout) = 1

\* C20: a clear-history leaves no record pending, so the notifications that
\* were pending are lost: a return or a closed signal that comes next does
\* nothing and prints nothing, and from then on the pending records are only
\* what later creates add and History only what later closes take from them.
C20_ClearLosesPending ==
  /\ [](IsClear(msg) => (buffer = <<>> /\ history = <<>>))
  /\ [][ (IsClear(msg) /\ (IsReturn(msg') \/ IsClosed(msg'))) =>
           /\ UNCHANGED <<history, buffer, cached_icons, files, pc>>
           /\ stdout' = <<>> ]_vars
  /\ [][ pc' = "running" =>
           /\ \A i \in 1..Len(buffer') :
                \/ \E j \in 1..Len(buffer) :
                     buffer'[i] = [buffer[j] EXCEPT !.id = buffer'[i].id]
                \/ IsNotify(msg') /\ i = Len(buffer') /\ buffer'[i] = Created(msg')
           /\ \A i \in 1..Len(history') :
                \/ \E j \in 1..Len(history) : history'[i] = history[j]
                \/ \E j \in 1..Len(buffer) : history'[i] = buffer[j] ]_vars

\* A clear-history has just dropped pending notifications, one of them with
\* an id already given by its return, along with the records of History.
C20_Witness ==
  /\ IsClear(msg)
  /\ \E i \in 1..Len(dropped.buffer) : dropped.buffer[i].id # 0
  /\ dropped.history # <<>>
  /\ buffer = <<>>
  /\ history = <<>>
  /\ stdout = << <<>> >>

====
